---------------------------- MODULE Spec2Model ----------------------------
(***************************************************************************)
(* A model of package dt, shared/datatypes/user.go: the User entity and    *)
(* its operations against the record store (GetUser, IsAuthenticated,      *)
(* GetAddress, SaveAddress, UpdateAddressName, CheckActiveAuthorization).  *)
(*                                                                         *)
(* The record store is the tables users, userflexids and addresses.  Every *)
(* operation is one action; it leaves in `call` what it was called with,   *)
(* what it returned and, as history, the tables as they were before it.    *)
(***************************************************************************)
EXTENDS Integers, Sequences, FiniteSets, TLC

VARIABLES
    users,        \* table users: a set of rows, id is the primary key
    userflexids,  \* table userflexids: a set of rows
    addresses,    \* table addresses: a set of rows, id is the primary key
    nextAddrId,   \* the id the next INSERT INTO addresses generates
    env,          \* the process environment's ABOT_REQUIRE_AUTH_IN_HOURS
    now,          \* time.Now()
    call          \* the last operation: arguments, results, tables before

vars == <<users, userflexids, addresses, nextAddrId, env, now, call>>

----------------------------------------------------------------------------
(* Values shared by all operations *)

\* A nil pointer, a NULL column, an unset environment variable: the empty
\* tuple.  Ptr(v) is a pointer to v, a column or a variable holding v.
NULL == <<>>

Ptr(v) == <<v>>

Deref(p) == p[1]

\* sql.NullInt64, invalid (the zero value) and valid.
InvalidInt64 == [Valid |-> FALSE, Int64 |-> 0]

ValidInt64(n) == [Valid |-> TRUE, Int64 |-> n]

\* The nil error.
nil == "nil"

\* A failure of the store other than "no rows" (connection lost, bad SQL...).
ErrStore == "store error"

\* database/sql's ErrNoRows, what db.Get returns when the query has no row.
sqlErrNoRows == "sql: no rows in result set"

ErrMissingUser == "missing user"
ErrMissingFlexIdType == "missing flexidtype"
ErrMissingFlexID == "missing flexid"
ErrInvalidFlexIDType == "invalid flexid type"

\* ErrNoAddress is declared elsewhere in package dt; GetAddress returns it.
ErrNoAddress == "no address"

fidtInvalid == 0
fidtEmail == 1
fidtPhone == 2

\* The call record before any operation ran.
NoCall == [op |-> "none"]

----------------------------------------------------------------------------
(* Bounds *)

\* User ids in the store are 1..MaxUid; MaxUid + 1 is an id no row has.
MaxUid == 2
\* userflexids rows are created at times 1..MaxCreatedAt.
MaxCreatedAt == 2
\* The store starts with at most MaxFlexRows rows in userflexids.
MaxFlexRows == 2
\* AuthMethod values are 0..MaxMethod.
MaxMethod == 2
\* At most MaxAddrs rows are inserted into addresses.
MaxAddrs == 2
\* A text given to GetAddress is at most MaxPieces pieces long.
MaxPieces == 3
\* time.Now() in hours since the epoch of the clock.
NowHours == 17750000

----------------------------------------------------------------------------
(* GetUser *)

Uids == 1 .. MaxUid

\* The flexible ids the store knows; "" is the empty string a caller may pass.
FlexIds == {"+15550001", "+15550002"}

\* The row of table users with primary key id.
UserRow(id) ==
    [id |-> id, name |-> "user", email |-> "user@example.com",
     lastauthenticated |-> NULL, stripecustomerid |-> "cus",
     authorizationid |-> InvalidInt64]

FlexRowSpace ==
    [flexid : FlexIds, flexidtype : {fidtEmail, fidtPhone},
     userid : Uids, createdat : 1 .. MaxCreatedAt]

\* type User struct, zero valued.
ZeroUser ==
    [ID |-> 0, Name |-> "", Email |-> "", LocationID |-> 0,
     StripeCustomerID |-> "", AuthorizationID |-> InvalidInt64,
     LastAuthenticated |-> NULL, LastAuthenticationMethod |-> 0,
     Trainer |-> FALSE]

\* db.Get(&u, q, uid) scanning id, name, email, lastauthenticated,
\* stripecustomerid of row r into a User; the other fields stay zero.
ScanUser(r) ==
    [ZeroUser EXCEPT !.ID = r.id, !.Name = r.name, !.Email = r.email,
                     !.LastAuthenticated = r.lastauthenticated,
                     !.StripeCustomerID = r.stripecustomerid]

\* SELECT userid FROM userflexids WHERE flexid=$1 AND flexidtype=$2
\* ORDER BY createdat DESC, read with db.Get: the user id of a first row of
\* the ordered result (rows created at the same time come in any order).
SelectFlexUserIds(flex, fid, fidT) ==
    LET rows == {r \in flex : r.flexid = fid /\ r.flexidtype = fidT}
    IN  {r.userid : r \in {x \in rows : \A y \in rows : y.createdat <= x.createdat}}

\* SELECT ... FROM users WHERE id=$1 read with db.Get, and GetUser's return.
\* failed: the store fails on this query.  dbcalls: queries made so far.
LoadUser(us, uid, failed, dbcalls) ==
    IF failed THEN [u |-> NULL, err |-> ErrStore, dbcalls |-> dbcalls + 1]
    ELSE IF \E r \in us : r.id = uid
         THEN [u |-> Ptr(ScanUser(CHOOSE r \in us : r.id = uid)), err |-> nil,
               dbcalls |-> dbcalls + 1]
         ELSE [u |-> NULL, err |-> sqlErrNoRows, dbcalls |-> dbcalls + 1]

\* The value fidT has when GetUser validates and queries with it.
EffectiveFlexIDType(fidT) == fidtPhone

\* func GetUser(db, uid, fid, fidT): the set of its possible returns on the
\* tables us and flex.  fail1, fail2: the store fails on the first, second
\* query.
GetUserReturns(us, flex, uid, fid, fidT, fail1, fail2) ==
    IF uid = 0
    THEN LET t == EffectiveFlexIDType(fidT)
         IN  IF fid = ""
             THEN {[u |-> NULL, err |-> ErrMissingFlexID, dbcalls |-> 0]}
             ELSE IF t = fidtInvalid
             THEN {[u |-> NULL, err |-> ErrInvalidFlexIDType, dbcalls |-> 0]}
             ELSE IF fail1
             THEN {[u |-> NULL, err |-> ErrStore, dbcalls |-> 1]}
             ELSE IF SelectFlexUserIds(flex, fid, t) = {}
             THEN {[u |-> NULL, err |-> ErrMissingUser, dbcalls |-> 1]}
             ELSE {LoadUser(us, id, fail2, 1) : id \in SelectFlexUserIds(flex, fid, t)}
    ELSE {LoadUser(us, uid, fail1, 0)}

GetUser(uid, fid, fidT, fail1, fail2) ==
    /\ \E res \in GetUserReturns(users, userflexids, uid, fid, fidT, fail1, fail2) :
          call' = [op |-> "GetUser", uid |-> uid, fid |-> fid, fidT |-> fidT,
                   fail1 |-> fail1, fail2 |-> fail2,
                   u |-> res.u, err |-> res.err, dbcalls |-> res.dbcalls]
    /\ UNCHANGED <<users, userflexids, addresses, nextAddrId, env, now>>

\* The store before GetUser is first called: any users, a few flexible ids.
InitResolve ==
    /\ users \in {{UserRow(i) : i \in S} : S \in SUBSET Uids}
    /\ userflexids \in {F \in SUBSET FlexRowSpace : Cardinality(F) <= MaxFlexRows}
    /\ addresses = {}
    /\ nextAddrId = 1
    /\ env = NULL
    /\ now = NowHours
    /\ call = NoCall

\* GetUser reads the store and leaves it as it is: a second call finds what
\* a first call finds, so each behaviour makes one call.
NextResolve ==
    /\ call = NoCall
    /\ \E uid \in 0 .. MaxUid + 1, fid \in FlexIds \cup {""},
          fidT \in {fidtInvalid, fidtEmail, fidtPhone}, fail1, fail2 \in BOOLEAN :
           GetUser(uid, fid, fidT, fail1, fail2)

SpecResolve == InitResolve /\ [][NextResolve]_vars

----------------------------------------------------------------------------
(* IsAuthenticated *)

ErrSyntax == "strconv.Atoi: invalid syntax"
ErrNegative == "negative ABOT_REQUIRE_AUTH_IN_HOURS"

\* A string is a tuple of characters here, so that it can be parsed.
Digits == <<"0", "1", "2", "3", "4", "5", "6", "7", "8", "9">>

IsDigit(c) == \E i \in 1 .. 10 : Digits[i] = c

DigitValue(c) == (CHOOSE i \in 1 .. 10 : Digits[i] = c) - 1

RECURSIVE ParseDigits(_, _)
ParseDigits(s, acc) ==
    IF s = <<>> THEN acc
    ELSE ParseDigits(Tail(s), acc * 10 + DigitValue(Head(s)))

\* strconv.Atoi(s): an optional sign, then one decimal digit or more.  (Its
\* range error needs 19 digits or more; the strings here are shorter.)
Atoi(s) ==
    LET signed == s # <<>> /\ Head(s) \in {"+", "-"}
        body == IF signed THEN Tail(s) ELSE s
    IN  IF body = <<>> \/ \E i \in 1 .. Len(body) : ~IsDigit(body[i])
        THEN [n |-> 0, err |-> ErrSyntax]
        ELSE [n |-> IF signed /\ Head(s) = "-" THEN -ParseDigits(body, 0)
                    ELSE ParseDigits(body, 0),
              err |-> nil]

\* os.Getenv: the variable's value, the empty string when it is not set.
Getenv(e) == IF e = NULL THEN <<>> ELSE Deref(e)

\* A time.Duration or an instant, counted in nanoseconds by the code, is
\* written h hours + s seconds + ns nanoseconds, 0 <= s < 3600 and
\* 0 <= ns < 10^9: the int64 range of nanoseconds does not fit a TLC integer.
Hours(n) == [h |-> n, s |-> 0, ns |-> 0]

Less(a, b) ==
    \/ a.h < b.h
    \/ a.h = b.h /\ a.s < b.s
    \/ a.h = b.h /\ a.s = b.s /\ a.ns < b.ns

Plus(a, b) ==
    LET ns == a.ns + b.ns
        s == a.s + b.s + (ns \div 1000000000)
    IN  [h |-> a.h + b.h + (s \div 3600), s |-> s % 3600, ns |-> ns % 1000000000]

\* math.MinInt64 nanoseconds, -2^63.
MinInt64 == [h |-> -2562048, s |-> 763, ns |-> 145224192]

\* 2^64 nanoseconds.
TwoTo64 == [h |-> 5124095, s |-> 2073, ns |-> 709551616]

\* An int64 product that is not positive, as the machine keeps it: modulo 2^64.
RECURSIVE WrapInt64(_)
WrapInt64(d) == IF Less(d, MinInt64) THEN WrapInt64(Plus(d, TwoTo64)) ELSE d

\* time.Duration(n) * time.Hour, for n <= 0.
DurationHours(n) == WrapInt64(Hours(n))

\* u.LastAuthenticated.After(oldTime), LastAuthenticated not nil.
After(t, old) == Less(old, t)

DefaultAuthHours == 168

\* The window t and the error of lines 100-115, from the variable's value.
RequireAuthInHours(tmp) ==
    IF Len(tmp) > 0
    THEN IF Atoi(tmp).err # nil THEN [t |-> 0, err |-> Atoi(tmp).err]
         ELSE IF Atoi(tmp).n < 0 THEN [t |-> Atoi(tmp).n, err |-> ErrNegative]
         ELSE [t |-> Atoi(tmp).n, err |-> nil]
    ELSE [t |-> DefaultAuthHours, err |-> nil]

\* func (u *User) IsAuthenticated(m): what it returns, or that it panics
\* (a nil pointer is dereferenced), with environment e at time nw.
IsAuthenticatedReturn(u, m, e, nw) ==
    LET cfg == RequireAuthInHours(Getenv(e))
        oldTime == Plus(Hours(nw), DurationHours(-1 * cfg.t))
    IN  IF cfg.err # nil
        THEN [authenticated |-> FALSE, err |-> cfg.err, panicked |-> FALSE]
        ELSE IF u.LastAuthenticated = NULL
        THEN [authenticated |-> FALSE, err |-> nil, panicked |-> TRUE]
        ELSE [authenticated |-> After(Deref(u.LastAuthenticated), oldTime)
                                /\ u.LastAuthenticationMethod >= m,
              err |-> nil, panicked |-> FALSE]

IsAuthenticated(u, m) ==
    /\ call' = [op |-> "IsAuthenticated", u |-> u, m |-> m,
                authenticated |-> IsAuthenticatedReturn(u, m, env, now).authenticated,
                err |-> IsAuthenticatedReturn(u, m, env, now).err,
                panicked |-> IsAuthenticatedReturn(u, m, env, now).panicked]
    /\ UNCHANGED <<users, userflexids, addresses, nextAddrId, env, now>>

\* Values of ABOT_REQUIRE_AUTH_IN_HOURS: not set, set to the empty string,
\* numbers, a negative number, and strings that are no number.
EnvValues ==
    {NULL, Ptr(<<>>), Ptr(<<"0">>), Ptr(<<"1">>), Ptr(<<"1", "6", "8">>),
     Ptr(<<"+", "2", "0", "0">>), Ptr(<<"-", "1">>), Ptr(<<"1", "w">>),
     Ptr(<<"-">>), Ptr(<<"2", "5", "6", "2", "0", "4", "7">>),
     Ptr(<<"2", "5", "6", "2", "0", "4", "8">>)}

\* How long before now (in hours) a user last authenticated; -1: in the future.
AuthAges == {-1, 0, 1, 167, 168, 169, 200, 201, 2562047, 2562048}

\* Users in memory: never authenticated, or authenticated some hours ago.
AuthUsers ==
    {[ZeroUser EXCEPT !.ID = 1, !.LastAuthenticated = la,
                      !.LastAuthenticationMethod = lm] :
        la \in {NULL} \cup {Ptr(Hours(NowHours - a)) : a \in AuthAges},
        lm \in 0 .. MaxMethod}

InitAuth ==
    /\ users = {}
    /\ userflexids = {}
    /\ addresses = {}
    /\ nextAddrId = 1
    /\ env \in EnvValues
    /\ now = NowHours
    /\ call = NoCall

\* IsAuthenticated changes nothing: each behaviour makes one call.
NextAuth ==
    /\ call = NoCall
    /\ \E u \in AuthUsers, m \in 0 .. MaxMethod : IsAuthenticated(u, m)

SpecAuth == InitAuth /\ [][NextAuth]_vars

----------------------------------------------------------------------------
(* GetAddress, SaveAddress, UpdateAddressName *)

UpperLetters ==
    <<"A", "B", "C", "D", "E", "F", "G", "H", "I", "J", "K", "L", "M", "N", "O", "P", "Q", "R", "S", "T", "U", "V", "W", "X", "Y", "Z">>

LowerLetters ==
    <<"a", "b", "c", "d", "e", "f", "g", "h", "i", "j", "k", "l", "m", "n", "o", "p", "q", "r", "s", "t", "u", "v", "w", "x", "y", "z">>

ToLowerChar(c) ==
    IF \E i \in 1 .. 26 : UpperLetters[i] = c
    THEN LowerLetters[CHOOSE i \in 1 .. 26 : UpperLetters[i] = c]
    ELSE c

\* strings.ToLower(s), s a tuple of characters.
ToLower(s) == [i \in 1 .. Len(s) |-> ToLowerChar(s[i])]

IsSpace(c) == c \in {" ", "\t", "\n"}

RECURSIVE FieldsFrom(_, _, _)
FieldsFrom(s, word, acc) ==
    IF s = <<>> THEN (IF word = <<>> THEN acc ELSE Append(acc, word))
    ELSE IF IsSpace(Head(s))
         THEN FieldsFrom(Tail(s), <<>>, IF word = <<>> THEN acc ELSE Append(acc, word))
         ELSE FieldsFrom(Tail(s), Append(word, Head(s)), acc)

\* strings.Fields(s): the words of s, split around runs of white space.
Fields(s) == FieldsFrom(s, <<>>, <<>>)

\* case "home", "place", "apartment", "flat", "house", "condo"
HomeWords ==
    {<<"h", "o", "m", "e">>,
     <<"p", "l", "a", "c", "e">>,
     <<"a", "p", "a", "r", "t", "m", "e", "n", "t">>,
     <<"f", "l", "a", "t">>,
     <<"h", "o", "u", "s", "e">>,
     <<"c", "o", "n", "d", "o">>}

\* case "work", "office", "biz", "business"
OfficeWords ==
    {<<"w", "o", "r", "k">>,
     <<"o", "f", "f", "i", "c", "e">>,
     <<"b", "i", "z">>,
     <<"b", "u", "s", "i", "n", "e", "s", "s">>}

\* SwitchWord with a bug: the loop stops at the first word that names an
\* address, a later one does not replace it.
SwitchWordKeepsFirst(name, w) ==
    IF name # "" THEN name
    ELSE IF w \in HomeWords THEN "home"
    ELSE IF w \in OfficeWords THEN "office"
    ELSE name

\* One turn of the loop over the words: the switch on w.
SwitchWord(name, w) ==
    IF w \in HomeWords THEN "home"
    ELSE IF w \in OfficeWords THEN "office"
    ELSE name

RECURSIVE RangeWords(_, _)
RangeWords(ws, name) ==
    IF ws = <<>> THEN name ELSE RangeWords(Tail(ws), SwitchWord(name, Head(ws)))

\* The name GetAddress looks up for text; "" when no word of text names one.
AddressName(text) == RangeWords(Fields(ToLower(text)), "")

\* The Address a SELECT name, line1, line2, city, state, country, zip scans
\* from row r.
ScanAddress(r) ==
    [Name |-> r.name, Line1 |-> r.line1, Line2 |-> r.line2, City |-> r.city,
     State |-> r.state, Country |-> r.country, Zip |-> r.zip]

\* SelectAddressRows with a bug: the WHERE clause lacks cardid=0.
SelectAddressRowsOfCardsToo(rows, userid, name) ==
    {r \in rows : r.userid = userid /\ r.name = name}

\* WHERE userid=$1 AND name=$2 AND cardid=0
SelectAddressRows(rows, userid, name) ==
    {r \in rows : r.userid = userid /\ r.name = name /\ r.cardid = 0}

\* func (u *User) GetAddress(db, text): the set of its possible returns.
\* rowid (history): the id of the row the Address was scanned from, 0 if none.
GetAddressReturns(rows, u, text, failed) ==
    LET name == AddressName(text)
    IN  IF name = ""
        THEN {[addr |-> NULL, err |-> ErrNoAddress, name |-> name,
               dbcalls |-> 0, rowid |-> 0]}
        ELSE IF failed
        THEN {[addr |-> NULL, err |-> ErrStore, name |-> name,
               dbcalls |-> 1, rowid |-> 0]}
        ELSE IF SelectAddressRows(rows, u.ID, name) = {}
        THEN {[addr |-> NULL, err |-> ErrNoAddress, name |-> name,
               dbcalls |-> 1, rowid |-> 0]}
        ELSE {[addr |-> Ptr(ScanAddress(r)), err |-> nil, name |-> name,
               dbcalls |-> 1, rowid |-> r.id] :
                 r \in SelectAddressRows(rows, u.ID, name)}

GetAddress(u, text, failed) ==
    /\ \E res \in GetAddressReturns(addresses, u, text, failed) :
          call' = [op |-> "GetAddress", u |-> u, text |-> text,
                   failed |-> failed, addr |-> res.addr, err |-> res.err,
                   name |-> res.name, dbcalls |-> res.dbcalls,
                   rowid |-> res.rowid, pre |-> addresses]
    /\ UNCHANGED <<users, userflexids, addresses, nextAddrId, env, now>>

\* INSERT INTO addresses (userid, cardid, name, ..., country, ...)
\* VALUES ($1, 0, $2, ..., 'USA', ...): the row inserted, with generated id.
InsertedAddressRow(id, u, addr) ==
    [id |-> id, userid |-> u.ID, cardid |-> 0, name |-> addr.Name,
     line1 |-> addr.Line1, line2 |-> addr.Line2, city |-> addr.City,
     state |-> addr.State, country |-> "USA", zip |-> addr.Zip,
     zip5 |-> addr.Zip5, zip4 |-> addr.Zip4]

\* func (u *User) SaveAddress(db, addr)
SaveAddress(u, addr, failed) ==
    /\ nextAddrId <= MaxAddrs + 1
    /\ IF failed
       THEN /\ UNCHANGED <<addresses, nextAddrId>>
            /\ call' = [op |-> "SaveAddress", u |-> u, addr |-> addr,
                        id |-> 0, err |-> ErrStore, pre |-> addresses]
       ELSE /\ addresses' = addresses \cup {InsertedAddressRow(nextAddrId, u, addr)}
            /\ nextAddrId' = nextAddrId + 1
            /\ call' = [op |-> "SaveAddress", u |-> u, addr |-> addr,
                        id |-> nextAddrId, err |-> nil, pre |-> addresses]
    /\ UNCHANGED <<users, userflexids, env, now>>

\* UpdateName with a bug: the UPDATE lacks WHERE id=$2.
UpdateNameOfEveryRow(rows, id, name) ==
    {[r EXCEPT !.name = name] : r \in rows}

\* UPDATE addresses SET name=$1 WHERE id=$2
UpdateName(rows, id, name) ==
    {IF r.id = id THEN [r EXCEPT !.name = name] ELSE r : r \in rows}

\* SELECT name, line1, line2, city, state, country, zip FROM addresses
\* WHERE id=$1 read with db.Get.
SelectAddressById(rows, id, failed) ==
    IF failed THEN [addr |-> NULL, err |-> ErrStore]
    ELSE IF \E r \in rows : r.id = id
         THEN [addr |-> Ptr(ScanAddress(CHOOSE r \in rows : r.id = id)), err |-> nil]
         ELSE [addr |-> NULL, err |-> sqlErrNoRows]

\* func (u *User) UpdateAddressName(db, id, name); it does not read its
\* receiver u.  fail: the query the store fails on, "update", "select" or
\* "none".
UpdateAddressName(id, name, fail) ==
    /\ IF fail = "update"
       THEN /\ UNCHANGED addresses
            /\ call' = [op |-> "UpdateAddressName", id |-> id, name |-> name,
                        fail |-> fail, addr |-> NULL, err |-> ErrStore,
                        pre |-> addresses]
       ELSE /\ addresses' = UpdateName(addresses, id, name)
            /\ call' = [op |-> "UpdateAddressName", id |-> id, name |-> name,
                        fail |-> fail,
                        addr |-> SelectAddressById(addresses', id, fail = "select").addr,
                        err |-> SelectAddressById(addresses', id, fail = "select").err,
                        pre |-> addresses]
    /\ UNCHANGED <<users, userflexids, nextAddrId, env, now>>

\* The pieces the texts given to GetAddress are made of.
TextPieces ==
    {<<" ">>,
     <<"\t">>,
     <<"h", "o", "m", "e">>,
     <<"O", "f", "f", "i", "c", "e">>,
     <<"F", "L", "A", "T">>,
     <<"w", "o", "r", "k">>,
     <<"d", "o", "w", "n", "t", "o", "w", "n">>,
     <<"s">>}

\* The texts of at most n pieces.
RECURSIVE TextsUpTo(_)
TextsUpTo(n) ==
    IF n = 0 THEN {<<>>}
    ELSE TextsUpTo(n - 1) \cup {t \o p : t \in TextsUpTo(n - 1), p \in TextPieces}

\* "I'm at the office now", "at my flat", "downtown"
ExampleTexts ==
    {<<"I", "'", "m", " ", "a", "t", " ", "t", "h", "e", " ", "o", "f", "f", "i", "c", "e", " ", "n", "o", "w">>,
     <<"a", "t", " ", "m", "y", " ", "f", "l", "a", "t">>,
     <<"d", "o", "w", "n", "t", "o", "w", "n">>}

Texts == TextsUpTo(MaxPieces) \cup ExampleTexts

\* Users in memory, as GetUser returns them.
MemUsers == {[ZeroUser EXCEPT !.ID = i] : i \in Uids}

InitNormalize ==
    /\ users = {}
    /\ userflexids = {}
    /\ addresses = {}
    /\ nextAddrId = 1
    /\ env = NULL
    /\ now = NowHours
    /\ call = NoCall

\* GetAddress changes nothing: each behaviour makes one call.
NextNormalize ==
    /\ call = NoCall
    /\ \E u \in MemUsers, text \in Texts, failed \in BOOLEAN :
          GetAddress(u, text, failed)

SpecNormalize == InitNormalize /\ [][NextNormalize]_vars

\* The Address values given to SaveAddress.
AddrInputs ==
    {[Name |-> n, Line1 |-> "1 Main St", Line2 |-> "Apt 2", City |-> "Venice",
      State |-> "CA", Country |-> "", Zip |-> "90291-1234", Zip5 |-> "90291",
      Zip4 |-> "1234"] : n \in {"home", "office"}}

\* The names given to UpdateAddressName.
NewNames == {"office", "den"}

\* An address of a card (cardid not 0), which another part of the package
\* inserts: user 1's billing address, named "home".
CardAddressRow ==
    [id |-> 1, userid |-> 1, cardid |-> 7, name |-> "home",
     line1 |-> "9 Bank Rd", line2 |-> "", city |-> "Reno", state |-> "NV",
     country |-> "USA", zip |-> "89501", zip5 |-> "89501", zip4 |-> ""]

\* The texts given to GetAddress here: "home", "Office", "downtown".
AddressTexts ==
    {<<"h", "o", "m", "e">>, <<"O", "f", "f", "i", "c", "e">>,
     <<"d", "o", "w", "n", "t", "o", "w", "n">>}

\* The addresses table holds the card's address; ids from 2 are free.
InitAddress ==
    /\ users = {}
    /\ userflexids = {}
    /\ addresses = {CardAddressRow}
    /\ nextAddrId = 2
    /\ env = NULL
    /\ now = NowHours
    /\ call = NoCall

NextAddress ==
    \/ \E u \in MemUsers, addr \in AddrInputs, failed \in BOOLEAN :
          SaveAddress(u, addr, failed)
    \/ \E id \in 1 .. MaxAddrs + 2, name \in NewNames,
          fail \in {"none", "update", "select"} :
          UpdateAddressName(id, name, fail)
    \/ \E u \in MemUsers, text \in AddressTexts, failed \in BOOLEAN :
          GetAddress(u, text, failed)

SpecAddress == InitAddress /\ [][NextAddress]_vars

----------------------------------------------------------------------------
(* CheckActiveAuthorization *)

\* Reading the authorization with a bug: the User in memory is read, not
\* the store.
CachedAuthorizationID(us, u) ==
    IF \E r \in us : r.id = u.ID
    THEN [authID |-> u.AuthorizationID, err |-> nil]
    ELSE [authID |-> InvalidInt64, err |-> sqlErrNoRows]

\* SELECT authorizationid FROM users WHERE id=$1 read with db.Get(&authID).
SelectAuthorizationID(us, u) ==
    IF \E r \in us : r.id = u.ID
    THEN [authID |-> (CHOOSE r \in us : r.id = u.ID).authorizationid, err |-> nil]
    ELSE [authID |-> InvalidInt64, err |-> sqlErrNoRows]

\* func (u *User) CheckActiveAuthorization(db): what it returns.
CheckActiveAuthorizationReturn(us, u, failed) ==
    IF failed THEN [active |-> FALSE, err |-> ErrStore]
    ELSE IF SelectAuthorizationID(us, u).err # nil
         THEN [active |-> FALSE, err |-> SelectAuthorizationID(us, u).err]
    ELSE IF ~SelectAuthorizationID(us, u).authID.Valid
         THEN [active |-> FALSE, err |-> nil]
    ELSE [active |-> TRUE, err |-> nil]

CheckActiveAuthorization(u, failed) ==
    /\ call' = [op |-> "CheckActiveAuthorization", u |-> u, failed |-> failed,
                active |-> CheckActiveAuthorizationReturn(users, u, failed).active,
                err |-> CheckActiveAuthorizationReturn(users, u, failed).err,
                pre |-> users]
    /\ UNCHANGED <<users, userflexids, addresses, nextAddrId, env, now>>

\* The column authorizationid of user id's row set to a.
WithAuthorization(us, id, a) ==
    {IF r.id = id THEN [r EXCEPT !.authorizationid = a] ELSE r : r \in us}

\* Another part of the system asks user id for an authorization: the row's
\* authorizationid is set to the request's id.
RequestAuth(id, authID) ==
    /\ users' = WithAuthorization(users, id, ValidInt64(authID))
    /\ call' = [op |-> "RequestAuth", id |-> id, authID |-> authID, pre |-> users]
    /\ UNCHANGED <<userflexids, addresses, nextAddrId, env, now>>

\* "RequestAuth nulls out the authorizationid once auth has been completed."
CompleteAuth(id) ==
    /\ users' = WithAuthorization(users, id, InvalidInt64)
    /\ call' = [op |-> "CompleteAuth", id |-> id, pre |-> users]
    /\ UNCHANGED <<userflexids, addresses, nextAddrId, env, now>>

\* Users in memory whose AuthorizationID may differ from the store's; one
\* of them has an id that no row has.
CheckUsers ==
    {[ZeroUser EXCEPT !.ID = i, !.AuthorizationID = a] :
        i \in 1 .. MaxUid + 1, a \in {InvalidInt64, ValidInt64(1)}}

InitChallenge ==
    /\ users = {UserRow(i) : i \in Uids}
    /\ userflexids = {}
    /\ addresses = {}
    /\ nextAddrId = 1
    /\ env = NULL
    /\ now = NowHours
    /\ call = NoCall

NextChallenge ==
    \/ \E id \in Uids, authID \in 1 .. 2 : RequestAuth(id, authID)
    \/ \E id \in Uids : CompleteAuth(id)
    \/ \E u \in CheckUsers, failed \in BOOLEAN : CheckActiveAuthorization(u, failed)

SpecChallenge == InitChallenge /\ [][NextChallenge]_vars

----------------------------------------------------------------------------
(* The identity resolver's properties *)

\* The last operation was GetUser and the store answered every query.
ResolvedBy(uid, fid, fidT) ==
    /\ call.op = "GetUser"
    /\ call.uid = uid /\ call.fid = fid /\ call.fidT = fidT
    /\ ~call.fail1 /\ ~call.fail2

\* C1: GetUser with a non-zero id ignores the flexible id and its type; it
\* returns the user of table users with that id when there is one, and
\* fails with ErrMissingUser when there is none.
GetUserByIdFoundOrMissingUser ==
    \A uid \in 1 .. MaxUid + 1, fid \in FlexIds \cup {""},
       fidT \in {fidtInvalid, fidtEmail, fidtPhone} :
        ResolvedBy(uid, fid, fidT) =>
            IF \E r \in users : r.id = uid
            THEN /\ call.err = nil
                 /\ call.u # NULL
                 /\ Deref(call.u).ID = uid
            ELSE /\ call.err = ErrMissingUser
                 /\ call.u = NULL

\* The user ids of the rows of userflexids for (fid, fidT) that no other row
\* for the pair is created after.
LatestMappedUids(fid, fidT) ==
    {r.userid : r \in {x \in userflexids :
        /\ x.flexid = fid /\ x.flexidtype = fidT
        /\ \A y \in userflexids :
              y.flexid = fid /\ y.flexidtype = fidT => y.createdat <= x.createdat}}

\* C2: GetUser(0, fid, fidT), fid not empty and fidT email or phone, with a
\* mapping for (fid, fidT) in userflexids, returns the user of the latest
\* created mapping for exactly that pair, whatever is mapped for fid under
\* the other type.
GetUserByFlexIdTakesLatestOfPair ==
    \A fid \in FlexIds, fidT \in {fidtEmail, fidtPhone} :
        /\ ResolvedBy(0, fid, fidT)
        /\ LatestMappedUids(fid, fidT) # {}
        /\ \A id \in LatestMappedUids(fid, fidT) : \E r \in users : r.id = id
        => /\ call.err = nil
           /\ call.u # NULL
           /\ Deref(call.u).ID \in LatestMappedUids(fid, fidT)

\* C3: GetUser with id zero validates before it queries the store: an empty
\* fid fails with ErrMissingFlexID for any type, a non-empty fid with type
\* fidtInvalid fails with ErrInvalidFlexIDType, and no user is returned.
GetUserValidatesFlexArguments ==
    call.op = "GetUser" /\ call.uid = 0 =>
        /\ call.fid = "" =>
              call.err = ErrMissingFlexID /\ call.u = NULL /\ call.dbcalls = 0
        /\ call.fid # "" /\ call.fidT = fidtInvalid =>
              call.err = ErrInvalidFlexIDType /\ call.u = NULL /\ call.dbcalls = 0

----------------------------------------------------------------------------
(* The freshness evaluator's properties *)

\* The variable is set to a non-negative integer.
WindowIsValid(e) ==
    e # NULL /\ Atoi(Deref(e)).err = nil /\ Atoi(Deref(e)).n >= 0

\* Freshness as specified, in whole hours: the cutoff nw - window is
\* strictly before the last authentication, and the method suffices.
FreshWithin(u, m, window, nw) ==
    /\ u.LastAuthenticated # NULL
    /\ Less(Hours(nw - window), Deref(u.LastAuthenticated))
    /\ u.LastAuthenticationMethod >= m

\* C4: for a user never authenticated (LastAuthenticated nil) and a valid
\* or absent window setting, IsAuthenticated returns false and no error; it
\* does not abort.
NeverAuthenticatedIsFalse ==
    /\ call.op = "IsAuthenticated"
    /\ call.u.LastAuthenticated = NULL
    /\ (env = NULL \/ WindowIsValid(env))
    => ~call.panicked /\ ~call.authenticated /\ call.err = nil

\* C5: for a user with LastAuthenticated set and a window of any
\* non-negative number of hours, IsAuthenticated is true exactly when
\* now - window is strictly before LastAuthenticated and the user's method
\* is at least the required one.
IsAuthenticatedIffFresh ==
    /\ call.op = "IsAuthenticated"
    /\ call.u.LastAuthenticated # NULL
    /\ WindowIsValid(env)
    => /\ ~call.panicked
       /\ call.err = nil
       /\ call.authenticated = FreshWithin(call.u, call.m, Atoi(Deref(env)).n, now)

\* C6: with the setting absent IsAuthenticated evaluates freshness with a
\* window of 168 hours and returns no error; with the setting present and
\* not a non-negative integer it returns an error and false.
WindowSettingHandled ==
    call.op = "IsAuthenticated" =>
        /\ env = NULL =>
              /\ ~call.panicked
              /\ call.err = nil
              /\ call.authenticated = FreshWithin(call.u, call.m, 168, now)
        /\ env # NULL /\ ~WindowIsValid(env) =>
              ~call.panicked /\ call.err # nil /\ ~call.authenticated

----------------------------------------------------------------------------
(* The address normalizer's and matcher's properties *)

\* The words of text as the specification cuts them: text split on white
\* space, then each word lower-cased.
LowerWords(text) == [i \in 1 .. Len(Fields(text)) |-> ToLower(Fields(text)[i])]

\* The places in LowerWords(text) of the words of the synonym table.
LabelPlaces(text) ==
    {i \in 1 .. Len(Fields(text)) : LowerWords(text)[i] \in HomeWords \cup OfficeWords}

LastPlace(S) == CHOOSE i \in S : \A j \in S : j <= i

\* C7: the label GetAddress looks up is that of the last word of the text
\* (split on white space, lower-cased) that is in the synonym table, whatever
\* words come before it; with no such word GetAddress fails with
\* ErrNoAddress and does not query the store.
LabelIsLastMatchingWord ==
    call.op = "GetAddress" =>
        IF LabelPlaces(call.text) = {}
        THEN call.err = ErrNoAddress /\ call.addr = NULL /\ call.dbcalls = 0
        ELSE call.name =
                IF LowerWords(call.text)[LastPlace(LabelPlaces(call.text))] \in HomeWords
                THEN "home" ELSE "office"

\* GetAddress was given "home Office": two words of the table with
\* different labels, the last one capitalised, and looked up "office".
LastOfTwoLabelsLookedUp ==
    /\ call.op = "GetAddress"
    /\ call.text = <<"h", "o", "m", "e", " ", "O", "f", "f", "i", "c", "e">>
    /\ call.name = "office"
    /\ call.dbcalls = 1

\* The rows of addresses that user u owns directly under the label name.
OwnDirectLabelled(u, name) ==
    {r \in addresses : r.userid = u.ID /\ r.cardid = 0 /\ r.name = name}

\* C8: after any SaveAddress and UpdateAddressName operations, GetAddress
\* returns an address only of a row that the same user owns, with cardid 0
\* and the label of the text as its name; with no such row it fails with
\* ErrNoAddress, and a failure of the store is returned as it is.
FindAddressReturnsOwnDirectLabelled ==
    call.op = "GetAddress" =>
        /\ call.err = nil =>
              \E r \in OwnDirectLabelled(call.u, AddressName(call.text)) :
                  r.id = call.rowid /\ call.addr = Ptr(ScanAddress(r))
        /\ /\ ~call.failed
           /\ OwnDirectLabelled(call.u, AddressName(call.text)) = {}
           => call.err = ErrNoAddress /\ call.addr = NULL
        /\ call.failed /\ AddressName(call.text) # "" =>
              call.err = ErrStore /\ call.addr = NULL

\* GetAddress found an address while the table holds another row with the
\* same label that is another user's or a card's.
FoundAmongOthersRows ==
    /\ call.op = "GetAddress"
    /\ call.err = nil
    /\ \E r \in addresses :
          /\ r.id # call.rowid
          /\ r.name = call.name
          /\ r.userid # call.u.ID \/ r.cardid # 0

\* C9: UpdateAddressName of an existing address X to L, the store answering,
\* returns the address a fetch of X then gives: its name is L, its other
\* fields are as before; every other row is as before.
RenameRoundTrip ==
    /\ call.op = "UpdateAddressName"
    /\ call.fail = "none"
    /\ \E r \in call.pre : r.id = call.id
    => LET before == CHOOSE r \in call.pre : r.id = call.id
           fetched == SelectAddressById(addresses, call.id, FALSE)
       IN  /\ call.err = nil
           /\ fetched.err = nil
           /\ call.addr = fetched.addr
           /\ Deref(fetched.addr) = [ScanAddress(before) EXCEPT !.Name = call.name]
           /\ addresses = (call.pre \ {before}) \cup {[before EXCEPT !.name = call.name]}

\* UpdateAddressName gave an address a name it did not have, in a table of
\* several rows.
RenamedAmongSeveral ==
    /\ call.op = "UpdateAddressName"
    /\ call.err = nil
    /\ Cardinality(call.pre) >= 2
    /\ \E r \in call.pre : r.id = call.id /\ r.name # call.name

----------------------------------------------------------------------------
(* The authorization tracker's properties *)

\* C10: CheckActiveAuthorization answers from the store's row, not from the
\* User in memory: it returns true when the row's authorizationid is set,
\* false when it is NULL, whatever RequestAuth and CompleteAuth did before;
\* and it leaves the table as it was.
CheckReadsCurrentStore ==
    call.op = "CheckActiveAuthorization" =>
        /\ users = call.pre
        /\ ~call.failed /\ (\E r \in users : r.id = call.u.ID) =>
              /\ call.err = nil
              /\ \A r \in users :
                    r.id = call.u.ID => call.active = r.authorizationid.Valid
        /\ call.err # nil => ~call.active

\* CheckActiveAuthorization returned true for a User whose AuthorizationID
\* in memory is invalid: RequestAuth has set the row's since.
ActiveAgainstStaleUser ==
    /\ call.op = "CheckActiveAuthorization"
    /\ call.err = nil
    /\ call.active
    /\ ~call.u.AuthorizationID.Valid

=============================================================================
